---- MODULE Spec2Model ----
(***************************************************************************)
(* The relational schema declared by orders/migrations/0001_initial.py,    *)
(* as the state machine of the store that holds it: the tables Order and   *)
(* OrderItem, the two tables they reference (customers.customer and the    *)
(* AUTH_USER_MODEL), and the single-row writes Django's ORM issues against *)
(* them: objects.create(), Model.save(), a ModelForm's save and            *)
(* Model.delete().  Each write is one action; a write that violates a      *)
(* constraint of the schema is rolled back and answered with an            *)
(* IntegrityError naming the constraint.                                   *)
(***************************************************************************)
EXTENDS Integers, FiniteSets

VARIABLES
    customers,  \* primary keys of the rows of customers.customer
    users,      \* primary keys of the rows of AUTH_USER_MODEL
    orders,     \* Order rows: primary key -> record of columns
    items,      \* OrderItem rows: primary key -> record of columns
    seq,        \* the auto-increment sequences of the four tables
    now,        \* the store's clock, read by auto_now and auto_now_add
    op,         \* the write that is returning, "none" between two writes
    result,     \* its outcome: "ok" or the violated constraint
    writes      \* the number of writes issued so far

vars == <<customers, users, orders, items, seq, now, op, result, writes>>
tables == <<customers, users, orders, items, seq>>

----------------------------------------------------------------------------
(* Bounds of the model. *)

MaxCustomers == 2
MaxUsers == 2
MaxOrders == 2
MaxItems == 2
MaxWrites == 6

(* Inputs. *)

NULL == 0
NoStatus == "<unset>"
OrderNumbers == {"ORD-1", "ORD-2"}
StatusInputs == {"shipped", "archived"}
CreateStatuses == {NoStatus, "archived"}
Quantities == {-1, 0, 1}
CustomerRefs == {NULL} \cup (1..MaxCustomers)
UserRefs == {NULL} \cup (1..MaxUsers)
OrderRefs == 1..MaxOrders
AssignedFields == {"order_number", "status", "customer", "updated_by"}
FieldValues(f) ==
    CASE f = "order_number" -> OrderNumbers
      [] f = "status" -> StatusInputs
      [] f = "customer" -> CustomerRefs
      [] f = "updated_by" -> UserRefs

----------------------------------------------------------------------------
(* The column declarations. *)

STATUS_CHOICES ==
    {"pending", "processing", "shipped", "delivered", "cancelled", "refunded"}

DefaultStatusProcessing == "processing"
\* status: default='pending'
DefaultStatus == "pending"

\* choices are validated by forms and full_clean(), not by the column.
StatusOrDefault(s) == IF s = NoStatus THEN DefaultStatus ELSE s

UniqueOKNone(num, self) == TRUE
\* order_number: unique=True
UniqueOK(num, self) ==
    \A p \in DOMAIN orders \ {self} : orders[p].order_number # num

NotNullOKNullable(c) == TRUE
\* customer: a ForeignKey without null=True
NotNullOK(c) == c # NULL

\* customer: ForeignKey(to='customers.customer')
FKCustomerOK(c) == c = NULL \/ c \in customers

\* created_by, updated_by: ForeignKey(null=True, to=AUTH_USER_MODEL)
FKUserOK(u) == u = NULL \/ u \in users

FKOrderOKNone(o) == TRUE
\* OrderItem.order: ForeignKey(to='orders.order'), not null
FKOrderOK(o) == o \in DOMAIN orders

QuantityCheckOKNone(q) == TRUE
\* quantity: PositiveIntegerField, the column check "quantity" >= 0
QuantityCheckOK(q) == q >= 0

EditableOrderNumberTrue == TRUE
\* order_number: editable=False
EditableOrderNumber == FALSE

AutoNowOff(o, t) == o
\* updated_at: auto_now=True, applied by Model.save()
AutoNow(o, t) == [o EXCEPT !.updated_at = t]

\* order_date, created_at: auto_now_add=True, applied on insert
AutoNowAdd(o, t) == [o EXCEPT !.order_date = t, !.created_at = t]

(* The constraints an Order write violates. *)
OrderViolations(num, cust, cby, uby, self) ==
    (IF UniqueOK(num, self) THEN {} ELSE {"UNIQUE"})
    \cup (IF NotNullOK(cust) THEN {} ELSE {"NOT NULL"})
    \cup (IF FKCustomerOK(cust) /\ FKUserOK(cby) /\ FKUserOK(uby)
          THEN {} ELSE {"FOREIGN KEY"})

(* The constraints an OrderItem write violates. *)
ItemViolations(o, q) ==
    (IF FKOrderOK(o) THEN {} ELSE {"FOREIGN KEY"})
    \cup (IF QuantityCheckOK(q) THEN {} ELSE {"CHECK"})

----------------------------------------------------------------------------
(* Row sets. *)

Restrict(f, S) == [x \in S |-> f[x]]
Insert(f, k, v) == [x \in DOMAIN f \cup {k} |-> IF x = k THEN v ELSE f[x]]

OrdersOf(c) == {p \in DOMAIN orders : orders[p].customer = c}
ItemsOf(ps) == {i \in DOMAIN items : items[i].order \in ps}

CascadeItemsNone(ps) == items
\* OrderItem.order: on_delete=CASCADE
CascadeItems(ps) == Restrict(items, DOMAIN items \ ItemsOf(ps))

CascadeOrdersNone(c) == orders
\* Order.customer: on_delete=CASCADE
CascadeOrders(c) == Restrict(orders, DOMAIN orders \ OrdersOf(c))

SetNullBoth(o, u) ==
    IF o.created_by = u \/ o.updated_by = u
    THEN [o EXCEPT !.created_by = NULL, !.updated_by = NULL]
    ELSE o
\* created_by, updated_by: on_delete=SET_NULL, a batch UPDATE of the column
SetNull(o, u) ==
    [o EXCEPT !.created_by = IF @ = u THEN NULL ELSE @,
              !.updated_by = IF @ = u THEN NULL ELSE @]

----------------------------------------------------------------------------
Init ==
    /\ customers = {}
    /\ users = {}
    /\ orders = [p \in {} |-> 0]
    /\ items = [i \in {} |-> 0]
    /\ seq = [customer |-> 0, user |-> 0, order |-> 0, item |-> 0]
    /\ now = 0
    /\ op = "none"
    /\ result = "ok"
    /\ writes = 0

(* A write is issued once the one before it has returned: the model follows
   runs of at most MaxWrites writes. *)
CanIssue == op = "none" /\ writes < MaxWrites

Issue(name) ==
    /\ writes' = writes + 1
    /\ op' = name

(* A row is stamped with the clock: each reading of the clock is later than
   the one before it. *)
Stamped == now' = now + 1

(* The outcome of the write is handed to its caller. *)
Return ==
    /\ op # "none"
    /\ op' = "none"
    /\ result' = "ok"
    /\ UNCHANGED <<tables, now, writes>>

Reject(name, violations) ==
    /\ Issue(name)
    /\ result' \in violations
    /\ UNCHANGED <<tables, now>>

CreateCustomer ==
    /\ CanIssue
    /\ seq.customer < MaxCustomers
    /\ seq' = [seq EXCEPT !.customer = @ + 1]
    /\ customers' = customers \cup {seq.customer + 1}
    /\ Issue("CreateCustomer")
    /\ result' = "ok"
    /\ UNCHANGED <<users, orders, items, now>>

CreateUser ==
    /\ CanIssue
    /\ seq.user < MaxUsers
    /\ seq' = [seq EXCEPT !.user = @ + 1]
    /\ users' = users \cup {seq.user + 1}
    /\ Issue("CreateUser")
    /\ result' = "ok"
    /\ UNCHANGED <<customers, orders, items, now>>

DeleteCustomer(c) ==
    /\ CanIssue
    /\ c \in customers
    /\ customers' = customers \ {c}
    /\ orders' = CascadeOrders(c)
    /\ items' = CascadeItems(OrdersOf(c))
    /\ Issue("DeleteCustomer")
    /\ result' = "ok"
    /\ UNCHANGED <<users, seq, now>>

DeleteUser(u) ==
    /\ CanIssue
    /\ u \in users
    /\ users' = users \ {u}
    /\ orders' = [p \in DOMAIN orders |-> SetNull(orders[p], u)]
    /\ Issue("DeleteUser")
    /\ result' = "ok"
    /\ UNCHANGED <<customers, items, seq, now>>

(* Order.objects.create(order_number=num, status=s, customer=cust,
   created_by=cby); s = NoStatus leaves status to its default. *)
CreateOrder(num, s, cust, cby) ==
    /\ CanIssue
    /\ seq.order < MaxOrders
    /\ LET bad == OrderViolations(num, cust, cby, NULL, NULL)
           pk == seq.order + 1
           row == AutoNow(AutoNowAdd(
                    [order_number |-> num, status |-> StatusOrDefault(s),
                     order_date |-> 0, created_at |-> 0, updated_at |-> 0,
                     created_by |-> cby, customer |-> cust,
                     updated_by |-> NULL], now), now)
       IN IF bad # {}
          THEN Reject("CreateOrder", bad)
          ELSE /\ orders' = Insert(orders, pk, row)
               /\ seq' = [seq EXCEPT !.order = pk]
               /\ Issue("CreateOrder")
               /\ result' = "ok"
               /\ Stamped
               /\ UNCHANGED <<customers, users, items>>

(* setattr(order, f, v); order.save(): Model.save() writes every column of
   the row, with the value assigned to column f. *)
SaveOrder(pk, f, v) ==
    /\ CanIssue
    /\ pk \in DOMAIN orders
    /\ LET row == AutoNow([orders[pk] EXCEPT ![f] = v], now)
           bad == OrderViolations(row.order_number, row.customer,
                                  row.created_by, row.updated_by, pk)
       IN IF bad # {}
          THEN Reject("SaveOrder", bad)
          ELSE /\ orders' = [orders EXCEPT ![pk] = row]
               /\ Issue("SaveOrder")
               /\ result' = "ok"
               /\ Stamped
               /\ UNCHANGED <<customers, users, items, seq>>

(* A ModelForm (or the admin) bound to posted data num, s and saved: the
   form holds the editable fields only. *)
FormSaveOrder(pk, num, s) ==
    /\ CanIssue
    /\ pk \in DOMAIN orders
    /\ LET n == IF EditableOrderNumber THEN num ELSE orders[pk].order_number
           bad == OrderViolations(n, orders[pk].customer,
                                  orders[pk].created_by,
                                  orders[pk].updated_by, pk)
           row == AutoNow([orders[pk] EXCEPT !.order_number = n,
                                             !.status = s], now)
       IN IF s \notin STATUS_CHOICES
          THEN /\ Issue("FormSaveOrder")
               /\ result' = "ValidationError"
               /\ UNCHANGED <<tables, now>>
          ELSE IF bad # {}
          THEN Reject("FormSaveOrder", bad)
          ELSE /\ orders' = [orders EXCEPT ![pk] = row]
               /\ Issue("FormSaveOrder")
               /\ result' = "ok"
               /\ Stamped
               /\ UNCHANGED <<customers, users, items, seq>>

DeleteOrder(pk) ==
    /\ CanIssue
    /\ pk \in DOMAIN orders
    /\ orders' = Restrict(orders, DOMAIN orders \ {pk})
    /\ items' = CascadeItems({pk})
    /\ Issue("DeleteOrder")
    /\ result' = "ok"
    /\ UNCHANGED <<customers, users, seq, now>>

CreateItem(o, q) ==
    /\ CanIssue
    /\ seq.item < MaxItems
    /\ LET bad == ItemViolations(o, q)
           pk == seq.item + 1
       IN IF bad # {}
          THEN Reject("CreateItem", bad)
          ELSE /\ items' = Insert(items, pk, [order |-> o, quantity |-> q])
               /\ seq' = [seq EXCEPT !.item = pk]
               /\ Issue("CreateItem")
               /\ result' = "ok"
               /\ UNCHANGED <<customers, users, orders, now>>

(* item.quantity = q; item.save() *)
SaveItem(pk, q) ==
    /\ CanIssue
    /\ pk \in DOMAIN items
    /\ LET bad == ItemViolations(items[pk].order, q)
       IN IF bad # {}
          THEN Reject("SaveItem", bad)
          ELSE /\ items' = [items EXCEPT ![pk].quantity = q]
               /\ Issue("SaveItem")
               /\ result' = "ok"
               /\ UNCHANGED <<customers, users, orders, seq, now>>

DeleteItem(pk) ==
    /\ CanIssue
    /\ pk \in DOMAIN items
    /\ items' = Restrict(items, DOMAIN items \ {pk})
    /\ Issue("DeleteItem")
    /\ result' = "ok"
    /\ UNCHANGED <<customers, users, orders, seq, now>>

Next ==
    \/ Return
    \/ CreateCustomer
    \/ CreateUser
    \/ \E c \in 1..MaxCustomers : DeleteCustomer(c)
    \/ \E u \in 1..MaxUsers : DeleteUser(u)
    \/ \E num \in OrderNumbers, s \in CreateStatuses,
          cust \in CustomerRefs, cby \in UserRefs :
          CreateOrder(num, s, cust, cby)
    \/ \E pk \in OrderRefs, f \in AssignedFields :
          \E v \in FieldValues(f) : SaveOrder(pk, f, v)
    \/ \E pk \in OrderRefs, num \in OrderNumbers, s \in StatusInputs :
          FormSaveOrder(pk, num, s)
    \/ \E pk \in OrderRefs : DeleteOrder(pk)
    \/ \E o \in OrderRefs, q \in Quantities : CreateItem(o, q)
    \/ \E pk \in 1..MaxItems, q \in Quantities : SaveItem(pk, q)
    \/ \E pk \in 1..MaxItems : DeleteItem(pk)

Spec == Init /\ [][Next]_vars

----------------------------------------------------------------------------
(* Properties. *)

NumberTaken(num, self) ==
    \E p \in DOMAIN orders \ {self} : orders[p].order_number = num

Kept == DOMAIN orders \cap DOMAIN orders'

(* The step is a write of one of these kinds. *)
Wrote(names) == writes' # writes /\ op' \in names

Errors == {"UNIQUE", "NOT NULL", "FOREIGN KEY", "CHECK"}

\* C1: no two Order rows ever hold the same order_number: a create that
\* succeeds stored an order_number no existing row held, and a create that
\* fails (as one under a taken order_number does) changes no row.
OrderNumberUnique ==
    [][/\ \A p, q \in DOMAIN orders' :
            p # q => orders'[p].order_number # orders'[q].order_number
       /\ Wrote({"CreateOrder"})
            => IF result' = "ok"
               THEN ~NumberTaken(orders'[seq'.order].order_number, NULL)
               ELSE result' \in Errors /\ UNCHANGED tables]_vars

\* C1: a create under a taken order_number was answered UNIQUE.
DuplicateRejected ==
    /\ op = "CreateOrder"
    /\ result = "UNIQUE"
    /\ DOMAIN orders # {}

\* C2: deleting a Customer deletes each of its Orders and each OrderItem of
\* those Orders; none of them is left.
CustomerDeleteCascades ==
    [][\A c \in customers :
         Wrote({"DeleteCustomer"}) /\ c \notin customers'
            => /\ DOMAIN orders' = DOMAIN orders \ OrdersOf(c)
               /\ \A p \in DOMAIN orders' : orders'[p].customer # c
               /\ DOMAIN items' = DOMAIN items \ ItemsOf(OrdersOf(c))
               /\ \A i \in DOMAIN items' : items'[i].order \notin OrdersOf(c)]_vars

\* C2: of two customers with an order each, the one whose order held an
\* item was deleted: five creations and the deletion, one order left, no item.
CustomerCascadeDone ==
    /\ op = "DeleteCustomer"
    /\ writes = 6
    /\ seq = [customer |-> 2, user |-> 0, order |-> 2, item |-> 1]
    /\ Cardinality(customers) = 1
    /\ Cardinality(DOMAIN orders) = 1
    /\ DOMAIN items = {}

\* C3: deleting a User deletes no Order and no OrderItem; in each Order it
\* sets to null exactly the created_by / updated_by that referenced the
\* User and changes no other column.
UserDeleteSetsNull ==
    [][\A u \in users :
         Wrote({"DeleteUser"}) /\ u \notin users'
            => /\ items' = items
               /\ DOMAIN orders' = DOMAIN orders
               /\ \A p \in DOMAIN orders :
                    orders'[p] =
                      [orders[p] EXCEPT
                         !.created_by = IF @ = u THEN NULL ELSE @,
                         !.updated_by = IF @ = u THEN NULL ELSE @]]_vars

\* C3: one of two Users was deleted and an Order is there with a null
\* created_by and the other User as its updated_by.
UserDeleteDone ==
    /\ op = "DeleteUser"
    /\ \E p \in DOMAIN orders :
         /\ orders[p].created_by = NULL
         /\ orders[p].updated_by \in users

\* C4: deleting an Order deletes exactly the OrderItems of that Order: the
\* items of every other Order stay as they were.
OrderDeleteCascades ==
    [][\A pk \in DOMAIN orders :
         Wrote({"DeleteOrder"}) /\ pk \notin DOMAIN orders'
            => /\ DOMAIN items' = {i \in DOMAIN items : items[i].order # pk}
               /\ \A i \in DOMAIN items' : items'[i] = items[i]]_vars

\* C4: two orders with an item each, one order deleted: its item is gone,
\* the other's is left.
OrderCascadeDone ==
    /\ op = "DeleteOrder"
    /\ writes = 6
    /\ seq = [customer |-> 1, user |-> 0, order |-> 2, item |-> 2]
    /\ Cardinality(DOMAIN orders) = 1
    /\ Cardinality(DOMAIN items) = 1

\* C5: in every reachable state each OrderItem references an existing Order
\* and each Order references an existing Customer.
ReferentialIntegrity ==
    /\ \A i \in DOMAIN items : items[i].order \in DOMAIN orders
    /\ \A p \in DOMAIN orders : orders[p].customer \in customers

\* C5: after a deletion of a Customer or an Order, items are left.
IntegrityAfterDelete ==
    /\ op \in {"DeleteCustomer", "DeleteOrder"}
    /\ DOMAIN items # {}

\* C6 as stated: a write of an Order with a taken order_number, with no
\* customer or with a status outside the six choices is rejected, so every
\* stored Order has its own order_number, a customer and one of the six
\* statuses.
StoredOrdersValid ==
    \A p \in DOMAIN orders :
        /\ ~NumberTaken(orders[p].order_number, p)
        /\ orders[p].customer # NULL
        /\ orders[p].status \in STATUS_CHOICES

\* C6 amended: a create or save of an Order with a taken order_number or
\* with no customer is rejected and changes no row: a write that succeeds
\* leaves every Order with its own order_number and a customer, a write that
\* fails leaves the rows as they were.  (The store does not check status
\* against the choices.)
ConstraintViolationRejected ==
    [][Wrote({"CreateOrder", "SaveOrder"})
         => IF result' = "ok"
            THEN \A p \in DOMAIN orders' :
                    /\ orders'[p].customer # NULL
                    /\ \A q \in DOMAIN orders' \ {p} :
                         orders'[q].order_number # orders'[p].order_number
            ELSE result' \in Errors /\ UNCHANGED tables]_vars

\* C6: a write without a customer was answered NOT NULL, and a status
\* outside the choices is stored.
NullCustomerRejected ==
    /\ result = "NOT NULL"
    /\ \E p \in DOMAIN orders : orders[p].status \notin STATUS_CHOICES

\* C7: an Order created without a status has status 'pending' right after
\* the creation.
StatusDefaultsToPending ==
    [][Wrote({"CreateOrder"}) /\ result' = "ok"
         => LET new == orders'[seq'.order]
            IN CreateOrder(new.order_number, NoStatus, new.customer,
                           new.created_by)
                  => new.status = "pending"]_vars

\* C7: an Order was created and holds 'pending', which no write passes.
CreatedPending ==
    /\ op = "CreateOrder"
    /\ result = "ok"
    /\ orders[seq.order].status = "pending"

\* C8 as stated: no write changes the order_number of an existing Order.
OrderNumberImmutable ==
    [][\A p \in Kept :
         orders'[p].order_number = orders[p].order_number]_vars

\* C8 amended: only a direct Model.save() that assigns order_number changes
\* it; a form's save, a deletion and the set-null of a User deletion leave
\* the order_number of every Order as it was.
OrderNumberNotEditable ==
    [][\A p \in Kept :
         orders'[p].order_number # orders[p].order_number
            => Wrote({"SaveOrder"}) /\ result' = "ok"]_vars

\* C8: a form was saved over an Order.
FormSaved ==
    /\ op = "FormSaveOrder"
    /\ result = "ok"
    /\ \E p \in DOMAIN orders : orders[p].status \in StatusInputs

QuantityNonNegative ==
    [][/\ \A i \in DOMAIN items' : items'[i].quantity \in Nat
       /\ Wrote({"CreateItem", "SaveItem"}) /\ result' # "ok"
            => /\ result' \in Errors /\ UNCHANGED tables
               /\ \A o \in DOMAIN orders : ~CreateItem(o, 0)]_vars

\* C10: a negative quantity was answered CHECK and a quantity of zero is
\* stored.
ZeroStoredNegativeRejected ==
    /\ result = "CHECK"
    /\ \E i \in DOMAIN items : items[i].quantity = 0

====
